---- MODULE Spec2Model ----
(***************************************************************************)
(* A model of openaiProvider.executeRequest                                *)
(* (src/providers/openai/index.ts): the conversation builder, the first    *)
(* completion, the early return, and the "sync" tool-execution loop.       *)
(*                                                                         *)
(* One request is executed per behaviour.  The two opaque capabilities are *)
(* the environment: the completion backend (openai.chat.completions.create)*)
(* answers every request with a completion of its choice or rejects, and   *)
(* the tool executor (executeTool) answers with success, failure or a      *)
(* rejection.  The handler is cut at its awaits; the per-tool-call body of *)
(* the for-of loop is one step per call.                                   *)
(*                                                                         *)
(* Line 15 fixes toolExecutionMode to 'parameters-only' and names 'sync' as  *)
(* the other mode; the code of both modes is modelled, and mode is chosen  *)
(* when the request starts, so that the loop of lines 126-226 is reached.  *)
(*                                                                         *)
(* JavaScript values: an absent (undefined) property is a key missing from *)
(* the record's DOMAIN; an optional local is a sequence of length 0 or 1;  *)
(* objects handled by spread are tagged [type, props].                     *)
(***************************************************************************)
EXTENDS Integers, Sequences, FiniteSets, Bags, TLC

VARIABLES
    mode,                \* toolExecutionMode (line 15)
    request,             \* the ProviderRequest argument
    pc,                  \* where the async function stands
    allMessages,         \* line 27
    payload,             \* line 63, as last sent to the backend
    content,             \* line 95
    tokens,              \* line 96
    toolCallsInResponse, \* line 103: <<>> when undefined, <<calls>> otherwise
    toolCalls,           \* line 104
    toolResults,         \* line 127
    currentMessages,     \* line 128
    iterationCount,      \* line 129
    callIdx,             \* position of the for-of loop of line 140
    pending,             \* the tool call awaiting executeTool (line 151)
    outcome,             \* what the caller sees: nothing yet, a Response, an error
    \* history of the two capabilities, as a stub backend/executor would record it
    nCompletions,        \* number of completions.create invocations made
    usageSeen,           \* bag of the usage objects of the completions received
    firstCompletion,     \* <<>> or <<the first completion received>>
    execLog,             \* executeTool invocations: [name, args, call]
    iterationsRun,       \* loop bodies entered past the break of line 135
    rejections,          \* completions.create invocations that rejected
    lastCompletion,      \* <<>> or <<the latest completion received>>
    texts,               \* the non-empty texts of the completions received, in order
    execOutcomes,        \* how each executeTool invocation of execLog ended:
                         \* success with its output, or not (failure, rejection)
    lastBatchExecs,      \* executeTool invocations since the latest completion
    batchesSeen          \* completions drawn from ToolBatches so far

vars == <<mode, request, pc, allMessages, payload, content, tokens,
          toolCallsInResponse, toolCalls, toolResults, currentMessages,
          iterationCount, callIdx, pending, outcome, nCompletions, usageSeen,
          firstCompletion, execLog, iterationsRun, rejections,
          lastCompletion, texts, execOutcomes, lastBatchExecs, batchesSeen>>

----------------------------------------------------------------------------
(* Bounds and program constants *)

\* How many completions of one request may carry one of the ToolBatches; every
\* other completion is final (no tool call), or requests the one call of
\* PlainCompletion.
MaxBatches == 2
\* The longest request.messages of the requests drawn for the conversation
\* builder.
MaxPriorMessages == 2

MAX_ITERATIONS == 10

ExecutionModes == {"sync", "parameters-only"}

\* The other value the comment of line 15 lists.
toolExecutionModeSync == "sync"

\* const toolExecutionMode = 'parameters-only'  (line 15)
toolExecutionMode == "parameters-only"

Has(r, f) == f \in DOMAIN r

\* JavaScript truthiness of an optional string property.
Truthy(r, f) == Has(r, f) /\ r[f] # ""

Null == "<null>"

----------------------------------------------------------------------------
(* JSON text, as a sequence of tokens *)

LB == [t |-> "{"]
RB == [t |-> "}"]
COLON == [t |-> ":"]
COMMA == [t |-> ","]
WS == [t |-> " "]
NULLTOK == [t |-> "null"]
Key(k) == [t |-> "str", k |-> k]
Num(n) == [t |-> "num", v |-> n]

JSObject(props) == [type |-> "object", props |-> props]
JSNull == [type |-> "null"]
EmptyProps == [k \in {} |-> 0]
SyntaxError == [ok |-> FALSE]
Parsed(v) == [ok |-> TRUE, value |-> v]

\* The members of an object body  "k":v , "k":v ...  folded left to right; a
\* repeated key keeps its last value.
RECURSIVE ParseMembers(_, _)
ParseMembers(s, acc) ==
    IF Len(s) >= 3 /\ s[1].t = "str" /\ s[2].t = ":" /\ s[3].t = "num"
    THEN LET acc2 == (s[1].k :> s[3].v) @@ acc
             rest == SubSeq(s, 4, Len(s))
         IN  IF rest = <<>> THEN Parsed(JSObject(acc2))
             ELSE IF rest[1].t = "," /\ Len(rest) > 1
                  THEN ParseMembers(Tail(rest), acc2)
                  ELSE SyntaxError
    ELSE SyntaxError

\* JSON.parse on the texts the model uses: null, or an object of numbers.
\* Whitespace between tokens is skipped; anything else is a SyntaxError.
JSONparse(text) ==
    LET s == SelectSeq(text, LAMBDA tok : tok.t # " ")
    IN  IF s = <<NULLTOK>> THEN Parsed(JSNull)
        ELSE IF Len(s) >= 2 /\ s[1].t = "{" /\ s[Len(s)].t = "}"
             THEN IF Len(s) = 2 THEN Parsed(JSObject(EmptyProps))
                  ELSE ParseMembers(SubSeq(s, 2, Len(s) - 1), EmptyProps)
             ELSE SyntaxError

\* The order in which JSON.stringify meets the keys of the modelled outputs.
KeyOrder == <<"ok", "temp", "x", "y", "z">>

RECURSIVE StringifyMembers(_, _, _)
StringifyMembers(props, i, first) ==
    IF i > Len(KeyOrder) THEN <<>>
    ELSE IF KeyOrder[i] \in DOMAIN props
         THEN (IF first THEN <<>> ELSE <<COMMA>>)
              \o <<Key(KeyOrder[i]), COLON, Num(props[KeyOrder[i]])>>
              \o StringifyMembers(props, i + 1, FALSE)
         ELSE StringifyMembers(props, i + 1, first)

\* JSON.stringify of a tool output (outputs are JSON data: null or an object
\* of numbers, for which stringify returns a text).
JSONstringify(v) ==
    IF v.type = "null" THEN <<NULLTOK>>
    ELSE <<LB>> \o StringifyMembers(v.props, 1, TRUE) \o <<RB>>

\* The own enumerable properties a spread  {...v}  copies: none for
\* undefined (<<>>) and for null.
SpreadProps(opt) ==
    IF opt = <<>> THEN EmptyProps
    ELSE IF opt[1].type = "object" THEN opt[1].props ELSE EmptyProps

\* As MergedArgs, with the two spreads in the wrong order: defaults win.
MergedArgsDefaultsWin(tool, toolArgs) ==
    JSObject(SpreadProps(IF Has(tool, "params") THEN <<tool.params>> ELSE <<>>)
             @@ SpreadProps(<<toolArgs>>))

\* { ...tool.params, ...toolArgs }  (line 150): later spreads overwrite.
MergedArgs(tool, toolArgs) ==
    JSObject(SpreadProps(<<toolArgs>>)
             @@ SpreadProps(IF Has(tool, "params") THEN <<tool.params>> ELSE <<>>))

----------------------------------------------------------------------------
(* The request *)

ToolA == [id |-> "A", description |-> "tool A", parameters |-> "schemaA",
          params |-> JSObject([x |-> 1, y |-> 2])]
\* A tool without default parameter values.
ToolB == [id |-> "B", description |-> "tool B", parameters |-> "schemaB"]

ToolSets == {<<>>, <<ToolA, ToolB>>}

Conversations ==
    { [systemPrompt |-> "sys", model |-> "o1",
       messages |-> <<[role |-> "user", content |-> "hi"]>>],
      [systemPrompt |-> "", context |-> "ctx"] }

Requests ==
    LET withTools == Conversations
                     \cup {c @@ [tools |-> ts] : c \in Conversations, ts \in ToolSets}
    IN  withTools \cup {q @@ [apiKey |-> k] : q \in withTools, k \in {"", "sk"}}

\* As BuildMessages, with the context pushed before the system prompt.
BuildMessagesContextFirst(req) ==
    (IF Truthy(req, "context")
        THEN <<[role |-> "user", content |-> req.context]>> ELSE <<>>)
    \o (IF Truthy(req, "systemPrompt")
        THEN <<[role |-> "system", content |-> req.systemPrompt]>> ELSE <<>>)
    \o (IF Has(req, "messages") THEN req.messages ELSE <<>>)

\* Lines 26-48.
BuildMessages(req) ==
    (IF Truthy(req, "systemPrompt")
        THEN <<[role |-> "system", content |-> req.systemPrompt]>> ELSE <<>>)
    \o (IF Truthy(req, "context")
        THEN <<[role |-> "user", content |-> req.context]>> ELSE <<>>)
    \o (IF Has(req, "messages") THEN req.messages ELSE <<>>)

\* Lines 50-60: undefined (<<>>) for an absent or empty tool set.
TranslateTools(req) ==
    IF Has(req, "tools") /\ Len(req.tools) > 0
    THEN <<[i \in 1..Len(req.tools) |->
              [type |-> "function",
               function |-> [name |-> req.tools[i].id,
                             description |-> req.tools[i].description,
                             parameters |-> req.tools[i].parameters]]]>>
    ELSE <<>>

\* Lines 62-81 (temperature, max_tokens and response_format are passed
\* through and left out).
BuildPayload(req, messages) ==
    LET tools == TranslateTools(req)
        base == [model |-> IF Truthy(req, "model") THEN req.model ELSE "gpt-4o",
                 messages |-> messages]
    IN  IF tools # <<>> /\ Len(tools[1]) > 0
        THEN base @@ [tools |-> tools[1], tool_choice |-> "auto"]
        ELSE base

\* request.tools?.find((t) => t.id === toolName)  (line 146): <<>> or <<tool>>.
FindTool(req, toolName) ==
    IF ~Has(req, "tools") THEN <<>>
    ELSE LET hits == {i \in 1..Len(req.tools) : req.tools[i].id = toolName}
         IN  IF hits = {} THEN <<>>
             ELSE <<req.tools[CHOOSE i \in hits : \A j \in hits : i <= j]>>

----------------------------------------------------------------------------
(* The environment: completions and tool results *)

Call(id, name, arguments) ==
    [id |-> id, type |-> "function",
     function |-> [name |-> name, arguments |-> arguments]]

callA == Call("c1", "A", <<LB, Key("y"), COLON, Num(9), COMMA,
                           Key("z"), COLON, Num(3), RB>>)
callA2 == Call("c2", "A", <<NULLTOK>>)
callB == Call("c3", "B", <<LB, WS, Key("z"), COLON, WS, Num(4), RB>>)
callBad == Call("c4", "A", <<LB, Key("y"), COLON>>)
callUnknown == Call("c5", "Z", <<LB, RB>>)

UsageFull == [prompt_tokens |-> 10, completion_tokens |-> 5, total_tokens |-> 15]
UsagePartial == [prompt_tokens |-> 7]

\* Completions that request no tool call.
FinalCompletions ==
    { [content |-> "done", usage |-> UsageFull],
      [content |-> "", tool_calls |-> <<>>, usage |-> UsagePartial],
      [tool_calls |-> <<>>] }

\* A completion that requests one call, of a tool no request has.
PlainCompletion == [tool_calls |-> <<callUnknown>>, usage |-> UsageFull]

ToolBatches ==
    { [content |-> "t1", tool_calls |-> <<callA>>, usage |-> UsagePartial],
      [tool_calls |-> <<callB, callBad, callA>>],
      [content |-> "t3", tool_calls |-> <<callUnknown, callA2>>, usage |-> UsageFull] }

\* What the backend may answer, having answered n ToolBatches already.
Completions(n) ==
    FinalCompletions \cup {PlainCompletion}
    \cup (IF n < MaxBatches THEN ToolBatches ELSE {})

Output1 == JSObject([temp |-> 7])
Output2 == JSObject([ok |-> 1, x |-> 2])

\* What executeTool may resolve to.
ToolOutcomes ==
    { [success |-> TRUE, output |-> Output1],
      [success |-> TRUE, output |-> Output2],
      [success |-> FALSE, error |-> "tool failed"] }

----------------------------------------------------------------------------
(* Helpers of executeRequest *)

\* usage?.f || 0
Count(r, f) == IF Has(r, "usage") /\ Has(r.usage, f) THEN r.usage[f] ELSE 0

\* Lines 96-100.
InitialTokens(r) ==
    [prompt |-> Count(r, "prompt_tokens"),
     completion |-> Count(r, "completion_tokens"),
     total |-> Count(r, "total_tokens")]

\* As AddTokens, assigning each count instead of adding it.
AddTokensOverwriting(tok, r) ==
    IF Has(r, "usage")
    THEN [prompt |-> Count(r, "prompt_tokens"),
          completion |-> Count(r, "completion_tokens"),
          total |-> Count(r, "total_tokens")]
    ELSE tok

\* Lines 200-205.
AddTokens(tok, r) ==
    IF Has(r, "usage")
    THEN [prompt |-> tok.prompt + Count(r, "prompt_tokens"),
          completion |-> tok.completion + Count(r, "completion_tokens"),
          total |-> tok.total + Count(r, "total_tokens")]
    ELSE tok

\* choices[0]?.message?.tool_calls  (lines 103, 198).
ToolCallsOf(r) == IF Has(r, "tool_calls") THEN <<r.tool_calls>> ELSE <<>>

\* The calls a for-of or a map over toolCallsInResponse visits.
CallsIn(opt) == IF opt = <<>> THEN <<>> ELSE opt[1]

\* Lines 104-108: the map of line 105 throws at the first text that
\* JSON.parse rejects; <<>> stands for that throw.
MapToolCalls(opt) ==
    LET calls == CallsIn(opt)
    IN  IF \E i \in 1..Len(calls) : ~JSONparse(calls[i].function.arguments).ok
        THEN <<>>
        ELSE <<[i \in 1..Len(calls) |->
                  [name |-> calls[i].function.name,
                   arguments |-> JSONparse(calls[i].function.arguments).value]]>>

\* As ApiKeyMissing, testing for undefined only.
ApiKeyUndefined(req) == ~Has(req, "apiKey")

\* Line 17.
ApiKeyMissing(req) == ~Truthy(req, "apiKey")

\* As ReturnsImmediately, without the test of the execution mode.
ReturnsWithoutCalls(m, calls) == Len(calls) = 0

\* Line 111.
ReturnsImmediately(m, calls) == m = "parameters-only" \/ Len(calls) = 0

\* As LoopGuard, off by one.
LoopGuardInclusive(n) == n <= MAX_ITERATIONS

\* Line 133.
LoopGuard(n) == n < MAX_ITERATIONS

\* Line 135.
NoToolCalls(opt) == Len(CallsIn(opt)) = 0

\* Lines 117-123 and 220-226.  A property whose value is undefined is absent.
Response(req, text, tok, calls, results) ==
    [content |-> text, tokens |-> tok]
    @@ (IF Has(req, "model") THEN [model |-> req.model] ELSE EmptyProps)
    @@ (IF Len(calls) > 0 THEN [toolCalls |-> calls] ELSE EmptyProps)
    @@ (IF Len(results) > 0 THEN [toolResults |-> results] ELSE EmptyProps)

Returned(resp) == [kind |-> "response", value |-> resp]
Thrown(msg) == [kind |-> "error", error |-> msg]

\* Lines 158-171.
AssistantMessage(call) ==
    [role |-> "assistant", content |-> Null,
     tool_calls |-> <<[id |-> call.id, type |-> "function",
                       function |-> [name |-> call.function.name,
                                     arguments |-> call.function.arguments]]>>]

\* Lines 173-177.
ToolMessage(call, output) ==
    [role |-> "tool", tool_call_id |-> call.id, content |-> JSONstringify(output)]

----------------------------------------------------------------------------
(* The state machine *)

Init ==
    /\ mode \in ExecutionModes
    /\ request \in Requests
    /\ pc = "start"
    /\ allMessages = <<>>
    /\ payload = <<>>
    /\ content = ""
    /\ tokens = [prompt |-> 0, completion |-> 0, total |-> 0]
    /\ toolCallsInResponse = <<>>
    /\ toolCalls = <<>>
    /\ toolResults = <<>>
    /\ currentMessages = <<>>
    /\ iterationCount = 0
    /\ callIdx = 0
    /\ pending = <<>>
    /\ outcome = [kind |-> "pending"]
    /\ nCompletions = 0
    /\ usageSeen = EmptyBag
    /\ firstCompletion = <<>>
    /\ execLog = <<>>
    /\ iterationsRun = 0
    /\ rejections = 0
    /\ lastCompletion = <<>>
    /\ texts = <<>>
    /\ execOutcomes = <<>>
    /\ lastBatchExecs = 0
    /\ batchesSeen = 0

locals == <<allMessages, payload, content, tokens, toolCallsInResponse,
            toolCalls, toolResults, currentMessages, iterationCount, callIdx,
            pending>>
history == <<nCompletions, usageSeen, firstCompletion, execLog, iterationsRun,
             rejections, lastCompletion, texts, execOutcomes, lastBatchExecs,
             batchesSeen>>

\* The backend hands over completion r.
Received(r) ==
    /\ usageSeen' = usageSeen (+) SetToBag({IF Has(r, "usage") THEN r.usage
                                                               ELSE EmptyProps})
    /\ firstCompletion' = IF firstCompletion = <<>> THEN <<r>> ELSE firstCompletion
    /\ lastCompletion' = <<r>>
    /\ texts' = IF Truthy(r, "content") THEN Append(texts, r.content) ELSE texts
    /\ lastBatchExecs' = 0
    /\ batchesSeen' = IF r \in ToolBatches THEN batchesSeen + 1 ELSE batchesSeen

\* Lines 17-19: the credential check throws.
RejectMissingApiKey ==
    /\ pc = "start"
    /\ ApiKeyMissing(request)
    /\ pc' = "thrown"
    /\ outcome' = Thrown("API key is required for OpenAI")
    /\ UNCHANGED <<mode, request, locals, history>>

\* Lines 21-88: build the conversation and the payload, issue the first request.
SendFirstRequest ==
    /\ pc = "start"
    /\ ~ApiKeyMissing(request)
    /\ allMessages' = BuildMessages(request)
    /\ payload' = <<BuildPayload(request, BuildMessages(request))>>
    /\ nCompletions' = nCompletions + 1
    /\ pc' = "awaitFirst"
    /\ UNCHANGED <<mode, request, content, tokens, toolCallsInResponse, toolCalls,
                   toolResults, currentMessages, iterationCount, callIdx, pending,
                   outcome, usageSeen, firstCompletion, lastCompletion, texts, lastBatchExecs, execLog, execOutcomes, iterationsRun,
                   rejections, batchesSeen>>

\* Line 88: the first completion rejects; nothing catches it.
FirstCompletionRejects ==
    /\ pc = "awaitFirst"
    /\ rejections' = rejections + 1
    /\ pc' = "thrown"
    /\ outcome' = Thrown("backend error")
    /\ UNCHANGED <<mode, request, locals, nCompletions, usageSeen, firstCompletion, lastCompletion, texts, lastBatchExecs,
                   execLog, execOutcomes, iterationsRun, batchesSeen>>

\* Lines 88-129: the first completion resolves.
FirstCompletionResolves ==
    /\ pc = "awaitFirst"
    /\ \E r \in Completions(batchesSeen) :
         LET calls == MapToolCalls(ToolCallsOf(r))
         IN  /\ Received(r)
             /\ content' = IF Truthy(r, "content") THEN r.content ELSE ""
             /\ tokens' = InitialTokens(r)
             /\ toolCallsInResponse' = ToolCallsOf(r)
             /\ IF calls = <<>>
                THEN \* JSON.parse threw inside the map of line 105
                     /\ pc' = "thrown"
                     /\ outcome' = Thrown("SyntaxError")
                     /\ UNCHANGED <<toolCalls, toolResults, currentMessages>>
                ELSE /\ toolCalls' = calls[1]
                     /\ IF ReturnsImmediately(mode, calls[1])
                        THEN /\ pc' = "returned"
                             /\ outcome' = Returned(Response(request, content', tokens',
                                                             calls[1], <<>>))
                             /\ UNCHANGED <<toolResults, currentMessages>>
                        ELSE /\ pc' = "loopHead"
                             /\ toolResults' = <<>>
                             /\ currentMessages' = allMessages
                             /\ UNCHANGED outcome
    /\ UNCHANGED <<mode, request, allMessages, payload, iterationCount, callIdx,
                   pending, nCompletions, execLog, execOutcomes, iterationsRun, rejections>>

\* As EnterIteration, without the cap on the iterations.
EnterIterationPastCap ==
    /\ pc = "loopHead"
    /\ ~NoToolCalls(toolCallsInResponse)
    /\ pc' = "forEach"
    /\ callIdx' = 1
    /\ iterationsRun' = iterationsRun + 1
    /\ UNCHANGED <<mode, request, allMessages, payload, content, tokens,
                   toolCallsInResponse, toolCalls, toolResults, currentMessages,
                   iterationCount, pending, outcome, nCompletions, usageSeen,
                   firstCompletion, lastCompletion, texts, lastBatchExecs, execLog, execOutcomes, rejections, batchesSeen>>

\* Lines 133-140: the loop guard holds and the completion has tool calls.
EnterIteration ==
    /\ pc = "loopHead"
    /\ LoopGuard(iterationCount)
    /\ ~NoToolCalls(toolCallsInResponse)
    /\ pc' = "forEach"
    /\ callIdx' = 1
    /\ iterationsRun' = iterationsRun + 1
    /\ UNCHANGED <<mode, request, allMessages, payload, content, tokens,
                   toolCallsInResponse, toolCalls, toolResults, currentMessages,
                   iterationCount, pending, outcome, nCompletions, usageSeen,
                   firstCompletion, lastCompletion, texts, lastBatchExecs, execLog, execOutcomes, rejections, batchesSeen>>

\* As ExitLoop, treating the cap as an error.
ExitLoopThrowingAtCap ==
    /\ pc = "loopHead"
    /\ ~(LoopGuard(iterationCount) /\ ~NoToolCalls(toolCallsInResponse))
    /\ IF NoToolCalls(toolCallsInResponse)
       THEN /\ pc' = "returned"
            /\ outcome' = Returned(Response(request, content, tokens, toolCalls,
                                            toolResults))
       ELSE /\ pc' = "thrown"
            /\ outcome' = Thrown("too many iterations")
    /\ UNCHANGED <<mode, request, locals, history>>

\* Lines 133-137 and 214-226: the loop ends and the Response is returned.
ExitLoop ==
    /\ pc = "loopHead"
    /\ ~(LoopGuard(iterationCount) /\ ~NoToolCalls(toolCallsInResponse))
    /\ pc' = "returned"
    /\ outcome' = Returned(Response(request, content, tokens, toolCalls, toolResults))
    /\ UNCHANGED <<mode, request, locals, history>>

\* Lines 140-151: one tool call of the batch, up to the await of executeTool.
ProcessToolCall ==
    /\ pc = "forEach"
    /\ callIdx <= Len(CallsIn(toolCallsInResponse))
    /\ LET toolCall == CallsIn(toolCallsInResponse)[callIdx]
           toolName == toolCall.function.name
           toolArgs == JSONparse(toolCall.function.arguments)
           tool == FindTool(request, toolName)
       IN  IF ~toolArgs.ok \/ tool = <<>>
           THEN \* caught SyntaxError (line 178), or  if (!tool) continue
                /\ callIdx' = callIdx + 1
                /\ UNCHANGED <<pc, pending, execLog, lastBatchExecs>>
           ELSE /\ pending' = <<toolCall>>
                /\ lastBatchExecs' = lastBatchExecs + 1
                /\ execLog' = Append(execLog,
                                     [name |-> toolName,
                                      args |-> MergedArgs(tool[1], toolArgs.value),
                                      raw |-> TRUE,
                                      call |-> toolCall])
                /\ pc' = "awaitTool"
                /\ UNCHANGED callIdx
    /\ UNCHANGED <<mode, request, allMessages, payload, content, tokens,
                   toolCallsInResponse, toolCalls, toolResults, currentMessages,
                   iterationCount, outcome, nCompletions, usageSeen,
                   firstCompletion, lastCompletion, texts, execOutcomes,
                   iterationsRun, rejections, batchesSeen>>

\* As ToolResolves, putting the new output first.
ToolResolvesPrepending ==
    /\ pc = "awaitTool"
    /\ \E result \in ToolOutcomes :
         /\ execOutcomes' = Append(execOutcomes,
                                   IF result.success
                                   THEN [success |-> TRUE, output |-> result.output]
                                   ELSE [success |-> FALSE])
         /\ IF ~result.success
            THEN UNCHANGED <<toolResults, currentMessages>>
            ELSE /\ toolResults' = <<result.output>> \o toolResults
                 /\ currentMessages' = currentMessages
                                       \o <<AssistantMessage(pending[1]),
                                            ToolMessage(pending[1], result.output)>>
    /\ pending' = <<>>
    /\ callIdx' = callIdx + 1
    /\ pc' = "forEach"
    /\ UNCHANGED <<mode, request, allMessages, payload, content, tokens,
                   toolCallsInResponse, toolCalls, iterationCount, outcome,
                   nCompletions, usageSeen, firstCompletion,
                   execLog, iterationsRun, rejections, lastCompletion, texts,
                   lastBatchExecs, batchesSeen>>

\* As ToolResolves, appending the result message before the call message.
ToolResolvesResultFirst ==
    /\ pc = "awaitTool"
    /\ \E result \in ToolOutcomes :
         /\ execOutcomes' = Append(execOutcomes,
                                   IF result.success
                                   THEN [success |-> TRUE, output |-> result.output]
                                   ELSE [success |-> FALSE])
         /\ IF ~result.success
            THEN UNCHANGED <<toolResults, currentMessages>>
            ELSE /\ toolResults' = Append(toolResults, result.output)
                 /\ currentMessages' = currentMessages
                                       \o <<ToolMessage(pending[1], result.output),
                                            AssistantMessage(pending[1])>>
    /\ pending' = <<>>
    /\ callIdx' = callIdx + 1
    /\ pc' = "forEach"
    /\ UNCHANGED <<mode, request, allMessages, payload, content, tokens,
                   toolCallsInResponse, toolCalls, iterationCount, outcome,
                   nCompletions, usageSeen, firstCompletion,
                   execLog, iterationsRun, rejections, lastCompletion, texts,
                   lastBatchExecs, batchesSeen>>

\* As ToolResolves, without the test of result.success.
ToolResolvesIgnoringSuccess ==
    /\ pc = "awaitTool"
    /\ \E result \in ToolOutcomes :
         /\ execOutcomes' = Append(execOutcomes,
                                   IF result.success
                                   THEN [success |-> TRUE, output |-> result.output]
                                   ELSE [success |-> FALSE])
         /\ LET output == IF result.success THEN result.output ELSE JSNull
            IN  /\ toolResults' = Append(toolResults, output)
                /\ currentMessages' = currentMessages
                                      \o <<AssistantMessage(pending[1]),
                                           ToolMessage(pending[1], output)>>
    /\ pending' = <<>>
    /\ callIdx' = callIdx + 1
    /\ pc' = "forEach"
    /\ UNCHANGED <<mode, request, allMessages, payload, content, tokens,
                   toolCallsInResponse, toolCalls, iterationCount, outcome,
                   nCompletions, usageSeen, firstCompletion,
                   execLog, iterationsRun, rejections, lastCompletion, texts,
                   lastBatchExecs, batchesSeen>>

\* Lines 151-177: executeTool resolves.
ToolResolves ==
    /\ pc = "awaitTool"
    /\ \E result \in ToolOutcomes :
         /\ execOutcomes' = Append(execOutcomes,
                                   IF result.success
                                   THEN [success |-> TRUE, output |-> result.output]
                                   ELSE [success |-> FALSE])
         /\ IF ~result.success
            THEN UNCHANGED <<toolResults, currentMessages>>
            ELSE /\ toolResults' = Append(toolResults, result.output)
                 /\ currentMessages' = currentMessages
                                       \o <<AssistantMessage(pending[1]),
                                            ToolMessage(pending[1], result.output)>>
    /\ pending' = <<>>
    /\ callIdx' = callIdx + 1
    /\ pc' = "forEach"
    /\ UNCHANGED <<mode, request, allMessages, payload, content, tokens,
                   toolCallsInResponse, toolCalls, iterationCount, outcome,
                   nCompletions, usageSeen, firstCompletion,
                   execLog, iterationsRun, rejections, lastCompletion, texts,
                   lastBatchExecs, batchesSeen>>

\* Lines 151 and 178-180: executeTool rejects and the inner catch logs it.
ToolRejects ==
    /\ pc = "awaitTool"
    /\ execOutcomes' = Append(execOutcomes, [success |-> FALSE])
    /\ pending' = <<>>
    /\ callIdx' = callIdx + 1
    /\ pc' = "forEach"
    /\ UNCHANGED <<mode, request, allMessages, payload, content, tokens,
                   toolCallsInResponse, toolCalls, toolResults, currentMessages,
                   iterationCount, outcome, nCompletions, usageSeen, firstCompletion,
                   execLog, iterationsRun, rejections, lastCompletion, texts,
                   lastBatchExecs, batchesSeen>>

\* As SendNextRequest, without waiting for the end of the batch.
SendNextRequestEarly ==
    /\ pc = "forEach"
    /\ payload' = <<[payload[1] EXCEPT !.messages = currentMessages]>>
    /\ nCompletions' = nCompletions + 1
    /\ pc' = "awaitNext"
    /\ UNCHANGED <<mode, request, allMessages, content, tokens, toolCallsInResponse,
                   toolCalls, toolResults, currentMessages, iterationCount, callIdx,
                   pending, outcome, usageSeen, firstCompletion, lastCompletion,
                   texts, lastBatchExecs, execLog, execOutcomes, iterationsRun,
                   rejections, batchesSeen>>

\* Lines 183-190: the batch is done; issue the next request.
SendNextRequest ==
    /\ pc = "forEach"
    /\ callIdx > Len(CallsIn(toolCallsInResponse))
    /\ payload' = <<[payload[1] EXCEPT !.messages = currentMessages]>>
    /\ nCompletions' = nCompletions + 1
    /\ pc' = "awaitNext"
    /\ UNCHANGED <<mode, request, allMessages, content, tokens, toolCallsInResponse,
                   toolCalls, toolResults, currentMessages, iterationCount, callIdx,
                   pending, outcome, usageSeen, firstCompletion, lastCompletion, texts, lastBatchExecs, execLog, execOutcomes,
                   iterationsRun, rejections, batchesSeen>>

\* As NextCompletionResolves, also recomputing toolCalls from the new completion.
NextCompletionResolvesRemapping ==
    /\ pc = "awaitNext"
    /\ \E r \in Completions(batchesSeen) :
         /\ Received(r)
         /\ content' = IF Truthy(r, "content") THEN r.content ELSE content
         /\ toolCallsInResponse' = ToolCallsOf(r)
         /\ toolCalls' = IF MapToolCalls(ToolCallsOf(r)) = <<>> THEN toolCalls
                                  ELSE MapToolCalls(ToolCallsOf(r))[1]
         /\ tokens' = AddTokens(tokens, r)
    /\ iterationCount' = iterationCount + 1
    /\ pc' = "loopHead"
    /\ UNCHANGED <<mode, request, allMessages, payload, toolResults,
                   currentMessages, callIdx, pending, outcome, nCompletions,
                   execLog, execOutcomes, iterationsRun, rejections>>

\* As NextCompletionResolves, assigning content whether or not there is a text.
NextCompletionResolvesClearingContent ==
    /\ pc = "awaitNext"
    /\ \E r \in Completions(batchesSeen) :
         /\ Received(r)
         /\ content' = IF Truthy(r, "content") THEN r.content ELSE ""
         /\ toolCallsInResponse' = ToolCallsOf(r)
         /\ tokens' = AddTokens(tokens, r)
    /\ iterationCount' = iterationCount + 1
    /\ pc' = "loopHead"
    /\ UNCHANGED <<mode, request, allMessages, payload, toolCalls, toolResults,
                   currentMessages, callIdx, pending, outcome, nCompletions,
                   execLog, execOutcomes, iterationsRun, rejections>>

\* Lines 190-207: the next completion resolves.
NextCompletionResolves ==
    /\ pc = "awaitNext"
    /\ \E r \in Completions(batchesSeen) :
         /\ Received(r)
         /\ content' = IF Truthy(r, "content") THEN r.content ELSE content
         /\ toolCallsInResponse' = ToolCallsOf(r)
         /\ tokens' = AddTokens(tokens, r)
    /\ iterationCount' = iterationCount + 1
    /\ pc' = "loopHead"
    /\ UNCHANGED <<mode, request, allMessages, payload, toolCalls, toolResults,
                   currentMessages, callIdx, pending, outcome, nCompletions,
                   execLog, execOutcomes, iterationsRun, rejections>>

\* As NextCompletionRejects, with a catch that returns what has accumulated.
NextCompletionRejectsSwallowed ==
    /\ pc = "awaitNext"
    /\ rejections' = rejections + 1
    /\ pc' = "returned"
    /\ outcome' = Returned(Response(request, content, tokens, toolCalls, toolResults))
    /\ UNCHANGED <<mode, request, locals, nCompletions, usageSeen, firstCompletion, lastCompletion, texts, lastBatchExecs,
                   execLog, execOutcomes, iterationsRun, batchesSeen>>

\* Lines 190 and 209-212: the next completion rejects; the outer catch rethrows.
NextCompletionRejects ==
    /\ pc = "awaitNext"
    /\ rejections' = rejections + 1
    /\ pc' = "thrown"
    /\ outcome' = Thrown("backend error")
    /\ UNCHANGED <<mode, request, locals, nCompletions, usageSeen, firstCompletion, lastCompletion, texts, lastBatchExecs,
                   execLog, execOutcomes, iterationsRun, batchesSeen>>

Next ==
    \/ RejectMissingApiKey
    \/ SendFirstRequest
    \/ FirstCompletionRejects
    \/ FirstCompletionResolves
    \/ EnterIteration
    \/ ExitLoop
    \/ ProcessToolCall
    \/ ToolResolves
    \/ ToolRejects
    \/ SendNextRequest
    \/ NextCompletionResolves
    \/ NextCompletionRejects

Spec == Init /\ [][Next]_vars

\* Every invocation of the backend and of the tool executor settles, and the
\* event loop then resumes the function: a step that can be taken is taken.
FairSpec == Init /\ [][Next]_vars /\ WF_vars(Next)

\* The requests drawn for the conversation builder of lines 26-48: the system
\* prompt and the context are absent, empty or set, and request.messages is
\* absent or holds up to MaxPriorMessages messages.
PriorMessages == {[role |-> "user", content |-> "hi"],
                  [role |-> "assistant", content |-> "yo"]}

BuildRequests ==
    LET opt(f, V) == {EmptyProps} \cup {[x \in {f} |-> v] : v \in V}
    IN  {a @@ b @@ c @@ d :
            a \in opt("systemPrompt", {"", "sys"}),
            b \in opt("context", {"", "ctx"}),
            c \in opt("messages", UNION {[1..n -> PriorMessages] :
                                            n \in 0..MaxPriorMessages}),
            d \in opt("apiKey", {"sk"})}

InitBuild ==
    /\ mode \in ExecutionModes
    /\ request \in BuildRequests
    /\ pc = "start"
    /\ allMessages = <<>>
    /\ payload = <<>>
    /\ content = ""
    /\ tokens = [prompt |-> 0, completion |-> 0, total |-> 0]
    /\ toolCallsInResponse = <<>>
    /\ toolCalls = <<>>
    /\ toolResults = <<>>
    /\ currentMessages = <<>>
    /\ iterationCount = 0
    /\ callIdx = 0
    /\ pending = <<>>
    /\ outcome = [kind |-> "pending"]
    /\ nCompletions = 0
    /\ usageSeen = EmptyBag
    /\ firstCompletion = <<>>
    /\ execLog = <<>>
    /\ iterationsRun = 0
    /\ rejections = 0
    /\ lastCompletion = <<>>
    /\ texts = <<>>
    /\ execOutcomes = <<>>
    /\ lastBatchExecs = 0
    /\ batchesSeen = 0

\* The function up to the settling of its first completion request.
NextBuild ==
    \/ RejectMissingApiKey
    \/ SendFirstRequest
    \/ FirstCompletionRejects
    \/ FirstCompletionResolves

SpecBuild == InitBuild /\ [][NextBuild]_vars

----------------------------------------------------------------------------
(* Properties *)

NoTools == ~Has(request, "tools") \/ Len(request.tools) = 0
CredentialAbsent == ~Has(request, "apiKey") \/ request.apiKey = ""
Finished == outcome.kind # "pending"
ReturnedResponse == outcome.kind = "response"

\* C1: in sync mode the loop runs at most MAX_ITERATIONS iterations and at
\* most MAX_ITERATIONS + 1 completions are invoked; a request that got past
\* the credential check has invoked 1 + (iterations run) completions whenever
\* no batch is in progress, and as many as iterations run while the batch of
\* the current iteration is being processed; the loop counter of a returned
\* Response is the number of iterations run.
C1_SyncCompletionCount ==
    mode = "sync" =>
        /\ iterationsRun <= MAX_ITERATIONS
        /\ nCompletions <= MAX_ITERATIONS + 1
        /\ pc \in {"forEach", "awaitTool"} => nCompletions = iterationsRun
        /\ pc \in {"awaitFirst", "loopHead", "awaitNext", "returned"}
              => nCompletions = 1 + iterationsRun
        /\ (pc = "thrown" /\ nCompletions > 0) => nCompletions = 1 + iterationsRun
        /\ (pc = "returned" /\ iterationsRun > 0) => iterationCount = iterationsRun

\* The cap ends the loop of a backend that requested a tool call every time.
C1_Witness ==
    /\ mode = "sync"
    /\ pc = "returned"
    /\ iterationsRun = MAX_ITERATIONS
    /\ nCompletions = MAX_ITERATIONS + 1
    /\ ~NoToolCalls(toolCallsInResponse)

\* C2: in parameters-only mode at most one completion is invoked and the tool
\* executor never is; a request that got past the credential check and ended
\* has invoked exactly one completion, and a returned Response has no
\* toolResults.
C2_ParametersOnlySingleCompletion ==
    mode = "parameters-only" =>
        /\ nCompletions <= 1
        /\ execLog = <<>>
        /\ iterationsRun = 0
        /\ (Finished /\ ~CredentialAbsent) => nCompletions = 1
        /\ ReturnedResponse => ~Has(outcome.value, "toolResults")

\* A Response of parameters-only mode that reports two requested tool calls.
C2_Witness ==
    /\ mode = "parameters-only"
    /\ ReturnedResponse
    /\ Has(outcome.value, "toolCalls")
    /\ Len(outcome.value.toolCalls) = 2
    /\ nCompletions = 1

\* C3: a request whose tool set is empty or absent runs no loop iteration,
\* executes no tool and invokes at most one completion, in either mode and
\* whatever the backend returns.
C3_NoToolsNoLoop ==
    NoTools => /\ iterationsRun = 0
               /\ execLog = <<>>
               /\ nCompletions <= 1

RECURSIVE SumOver(_, _, _)
SumOver(S, bag, f) ==
    IF S = {} THEN 0
    ELSE LET u == CHOOSE v \in S : TRUE
         IN  CopiesIn(u, bag) * (IF f \in DOMAIN u THEN u[f] ELSE 0)
             + SumOver(S \ {u}, bag, f)

\* The sum of count f over the usage objects of all completions received.
UsageSum(f) == SumOver(BagToSet(usageSeen), usageSeen, f)

\* C4: the tokens of a returned Response are, count by count, the sum of the
\* usage counts of every completion invoked for the request, a missing count
\* adding 0.
C4_TokensAreTheSum ==
    ReturnedResponse =>
        /\ BagCardinality(usageSeen) = nCompletions
        /\ outcome.value.tokens.prompt = UsageSum("prompt_tokens")
        /\ outcome.value.tokens.completion = UsageSum("completion_tokens")
        /\ outcome.value.tokens.total = UsageSum("total_tokens")

\* A Response after the cap, with completions of all three usage shapes.
C4_Witness ==
    /\ ReturnedResponse
    /\ nCompletions = MAX_ITERATIONS + 1
    /\ CopiesIn(UsagePartial, usageSeen) > 0
    /\ CopiesIn(EmptyProps, usageSeen) > 0
    /\ CopiesIn(UsageFull, usageSeen) > 1

\* C5: no tool-processing error ends the request with an error: the only
\* errors executeRequest raises are the missing credential and a failure of
\* the completion capability.
C5_ToolErrorsNeverRaised ==
    outcome.kind = "error" =>
        outcome.error \in {"API key is required for OpenAI", "backend error"}

\* The calls of batch `calls` that parse and name a tool of the request.
Executable(calls) ==
    {i \in 1..Len(calls) :
        /\ JSONparse(calls[i].function.arguments).ok
        /\ FindTool(request, calls[i].function.name) # <<>>}

\* C6: in sync mode, once the request has ended, every call of the first
\* completion's batch that parses and names a tool of the request was passed
\* to the executor, whatever malformed calls the batch also holds, and the
\* conversation grew by exactly two messages per recorded tool result.
C6_MalformedCallOnlySkipped ==
    (mode = "sync" /\ Finished /\ firstCompletion # <<>>) =>
        LET calls == CallsIn(ToolCallsOf(firstCompletion[1]))
        IN  /\ \A i \in Executable(calls) :
                  \E j \in 1..Len(execLog) : execLog[j].call = calls[i]
            /\ toolCalls # <<>> =>
                  Len(currentMessages) = Len(allMessages) + 2 * Len(toolResults)

\* C7: the toolCalls of a returned Response are the calls of the first
\* completion, name and parsed arguments, in order; the property is absent
\* when the first completion requested none.
C7_ToolCallsOfFirstCompletion ==
    ReturnedResponse =>
        LET calls == CallsIn(ToolCallsOf(firstCompletion[1]))
            resp == outcome.value
        IN  IF Len(calls) = 0 THEN ~Has(resp, "toolCalls")
            ELSE /\ Has(resp, "toolCalls")
                 /\ Len(resp.toolCalls) = Len(calls)
                 /\ \A i \in 1..Len(calls) :
                      /\ resp.toolCalls[i].name = calls[i].function.name
                      /\ JSONparse(calls[i].function.arguments)
                            = Parsed(resp.toolCalls[i].arguments)

\* A Response after two or more iterations whose last completion requested
\* calls other than those of the first.
C7_Witness ==
    /\ ReturnedResponse
    /\ iterationCount >= 2
    /\ ~NoToolCalls(toolCallsInResponse)
    /\ CallsIn(toolCallsInResponse) # CallsIn(ToolCallsOf(firstCompletion[1]))
    /\ Has(outcome.value, "toolCalls")

\* The keys a value contributes to a merge.
KeysOf(v) == IF v.type = "object" THEN DOMAIN v.props ELSE {}

\* C8: the arguments of every executeTool invocation are an object whose keys
\* are those of the tool's defaults and of the model's arguments; a key of the
\* model's arguments has the model's value, any other key its default.
C8_MergedArguments ==
    \A i \in 1..Len(execLog) :
        LET e == execLog[i]
            tool == FindTool(request, e.call.function.name)[1]
            supplied == JSONparse(e.call.function.arguments).value
            defaultKeys == IF Has(tool, "params") THEN KeysOf(tool.params) ELSE {}
        IN  /\ e.name = tool.id
            /\ e.args.type = "object"
            /\ DOMAIN e.args.props = defaultKeys \cup KeysOf(supplied)
            /\ \A k \in KeysOf(supplied) : e.args.props[k] = supplied.props[k]
            /\ \A k \in defaultKeys \ KeysOf(supplied) :
                  e.args.props[k] = tool.params.props[k]

\* Tool A, defaults {x:1, y:2}, called with {y:9, z:3}.
C8_Witness ==
    \E i \in 1..Len(execLog) :
        /\ execLog[i].call = callA
        /\ execLog[i].args = JSObject([x |-> 1, y |-> 9, z |-> 3])

\* C9: a request without credential invokes no completion and no tool and
\* gets no Response; its first step raises the error.
C9_MissingCredentialFails ==
    CredentialAbsent =>
        /\ nCompletions = 0
        /\ execLog = <<>>
        /\ ~ReturnedResponse
        /\ pc \in {"start", "thrown"}
        /\ pc = "thrown" => outcome = Thrown("API key is required for OpenAI")

\* The request with an empty credential has failed.
C9_Witness ==
    /\ Has(request, "apiKey")
    /\ request.apiKey = ""
    /\ pc = "thrown"
    /\ outcome.kind = "error"

\* C10: once a completion invocation has rejected, the caller has that error
\* and no Response, and executeRequest takes no further step: no completion
\* and no tool execution follows.
C10_CompletionErrorPropagates ==
    rejections > 0 =>
        /\ rejections = 1
        /\ outcome = Thrown("backend error")
        /\ ~ENABLED Next

\* A completion of the loop rejected after tool results and tokens accumulated.
C10_Witness ==
    /\ rejections = 1
    /\ iterationsRun >= 2
    /\ Len(toolResults) > 0
    /\ tokens.total > 0
    /\ pc = "thrown"

\* The outputs of the executions that succeeded, in execution order.
RECURSIVE SuccessOutputs(_)
SuccessOutputs(outs) ==
    IF outs = <<>> THEN <<>>
    ELSE (IF Head(outs).success THEN <<Head(outs).output>> ELSE <<>>)
         \o SuccessOutputs(Tail(outs))

\* The calls of the latest completion received.
LatestCalls == CallsIn(ToolCallsOf(lastCompletion[1]))

\* C11: completions and tool executions alternate.  While a completion of the
\* loop is awaited, every call of the previous completion has been handled
\* (the for-of loop is past its last call, no executeTool is outstanding, each
\* invocation made has ended) and the conversation sent is the current one,
\* holding two messages for each execution that succeeded; while a tool is
\* executed or a batch is in progress, every completion invoked has answered.
C11_CompletionsAfterBatch ==
    /\ pc = "awaitNext" =>
          /\ callIdx = Len(LatestCalls) + 1
          /\ pending = <<>>
          /\ Len(execOutcomes) = Len(execLog)
          /\ payload[1].messages = currentMessages
          /\ Len(payload[1].messages)
                = Len(allMessages) + 2 * Len(SuccessOutputs(execOutcomes))
    /\ pc \in {"forEach", "awaitTool"} =>
          BagCardinality(usageSeen) = nCompletions

\* A completion is awaited after a batch of three calls, one malformed and
\* two executed with success.
C11_Witness ==
    /\ pc = "awaitNext"
    /\ Len(LatestCalls) = 3
    /\ Len(SuccessOutputs(execOutcomes)) = 2
    /\ Len(payload[1].messages) = Len(allMessages) + 4

\* The text of completion r, "" when it has none.
TextOf(r) == IF Has(r, "content") THEN r.content ELSE ""

\* C12, as stated: the returned content is the text of the latest completion,
\* or the text of the first completion when the latest has none.
C12_LatestOrFirstText ==
    ReturnedResponse =>
        outcome.value.content =
            IF TextOf(lastCompletion[1]) # "" THEN TextOf(lastCompletion[1])
            ELSE TextOf(firstCompletion[1])

\* C12, amended: the returned content is the text of the most recent
\* completion that had a non-empty text, and the empty string when none had.
C12_MostRecentText ==
    ReturnedResponse =>
        outcome.value.content = IF texts = <<>> THEN "" ELSE texts[Len(texts)]

\* A Response whose latest completion had no text, after two completions with
\* different texts.
C12_Witness ==
    /\ ReturnedResponse
    /\ Len(texts) >= 2
    /\ texts[Len(texts)] # texts[1]
    /\ TextOf(lastCompletion[1]) = ""
    /\ outcome.value.content = texts[Len(texts)]

\* C13: the toolResults of a returned Response are the outputs of the tool
\* executions that succeeded, all of them and in execution order; the
\* property is absent when no execution succeeded.  Every execution started
\* has ended by then.
C13_ToolResultsAreSuccessOutputs ==
    ReturnedResponse =>
        /\ Len(execOutcomes) = Len(execLog)
        /\ IF SuccessOutputs(execOutcomes) = <<>>
           THEN ~Has(outcome.value, "toolResults")
           ELSE /\ Has(outcome.value, "toolResults")
                /\ outcome.value.toolResults = SuccessOutputs(execOutcomes)

\* A Response with two different outputs, from executions of two iterations,
\* and an execution without success among them.
C13_Witness ==
    /\ ReturnedResponse
    /\ mode = "sync"
    /\ Has(outcome.value, "toolResults")
    /\ Len(outcome.value.toolResults) >= 2
    /\ outcome.value.toolResults[1] # outcome.value.toolResults[2]
    /\ Len(execOutcomes) > Len(outcome.value.toolResults)
    /\ iterationsRun >= 2

\* The loop is about to stop on the cap: MAX_ITERATIONS iterations have run
\* and the latest completion still requests tool calls.
CapReached ==
    /\ pc = "loopHead"
    /\ iterationCount = MAX_ITERATIONS
    /\ ~NoToolCalls(toolCallsInResponse)

\* The caller has a Response that carries what the loop accumulated.
AccumulatedResponse ==
    /\ ReturnedResponse
    /\ outcome.value.content = content
    /\ outcome.value.tokens = tokens
    /\ Has(outcome.value, "toolCalls")
    /\ outcome.value.toolCalls = toolCalls
    /\ IF toolResults = <<>> THEN ~Has(outcome.value, "toolResults")
       ELSE /\ Has(outcome.value, "toolResults")
            /\ outcome.value.toolResults = toolResults

\* C14: when every invocation settles, executeRequest ends (with a Response
\* or an error), and a loop stopped by the cap ends with a Response that
\* carries the accumulated content, tokens, toolCalls and toolResults.
C14_TerminatesAndCapReturns ==
    /\ <>Finished
    /\ CapReached ~> AccumulatedResponse

\* A Response after the cap, with tool results accumulated.
C14_Witness ==
    /\ AccumulatedResponse
    /\ iterationCount = MAX_ITERATIONS
    /\ ~NoToolCalls(toolCallsInResponse)
    /\ Len(toolResults) >= 2
    /\ tokens.total > 0

\* C15: in sync mode a further completion is invoked after a completion if
\* and only if that completion requested a tool call and fewer than
\* MAX_ITERATIONS iterations had run.  Only if: while a completion of the loop
\* is awaited, the completion before it requested a call and the counter was
\* below the cap.  If: a request that ended without a failure of the backend
\* ended after a completion without tool calls, or after MAX_ITERATIONS
\* iterations.
C15_FurtherCompletionIff ==
    mode = "sync" =>
        /\ pc = "awaitNext" =>
              /\ Len(LatestCalls) > 0
              /\ iterationCount < MAX_ITERATIONS
              /\ iterationsRun = iterationCount + 1
        /\ (Finished /\ lastCompletion # <<>> /\ rejections = 0) =>
              \/ Len(LatestCalls) = 0
              \/ iterationsRun = MAX_ITERATIONS

\* The two messages of each execution of log that succeeded, in order: the
\* assistant message recording the call and the tool message with its result,
\* both carrying the call's identifier.
RECURSIVE CallRecords(_, _)
CallRecords(log, outs) ==
    IF outs = <<>> THEN <<>>
    ELSE (IF Head(outs).success
          THEN << [role |-> "assistant", content |-> Null,
                   tool_calls |-> <<Call(Head(log).call.id,
                                         Head(log).call.function.name,
                                         Head(log).call.function.arguments)>>],
                  [role |-> "tool", tool_call_id |-> Head(log).call.id,
                   content |-> JSONstringify(Head(outs).output)] >>
          ELSE <<>>)
         \o CallRecords(Tail(log), Tail(outs))

\* C16: the conversation sent with the first request is the initial one; in
\* sync mode the conversation of the loop, and the one sent with every later
\* request, is the initial conversation followed by the pair of messages of
\* each execution that has succeeded so far, in execution order, so that its
\* length is the initial length plus twice the number of tool results.
C16_ConversationIsInitialPlusPairs ==
    /\ pc = "awaitFirst" => payload[1].messages = allMessages
    /\ (mode = "sync" /\ pc \in {"loopHead", "forEach", "awaitTool", "awaitNext"}) =>
          /\ currentMessages = allMessages \o CallRecords(execLog, execOutcomes)
          /\ Len(currentMessages) = Len(allMessages) + 2 * Len(toolResults)
    /\ (mode = "sync" /\ pc = "awaitNext") =>
          payload[1].messages = allMessages \o CallRecords(execLog, execOutcomes)

\* A request of the loop carries the pairs of three executions of two
\* iterations, after an execution that did not succeed.
C16_Witness ==
    /\ pc = "awaitNext"
    /\ iterationsRun >= 2
    /\ Len(toolResults) = 3
    /\ Len(execOutcomes) > 3
    /\ Len(payload[1].messages) = Len(allMessages) + 6
    /\ payload[1].messages[Len(allMessages) + 1].tool_calls[1].id
          # payload[1].messages[Len(allMessages) + 3].tool_calls[1].id

\* C17: in sync mode, a step that handles a tool call changes the
\* conversation or toolResults exactly when the call names a tool of the
\* request and the executor answers with success.  A call naming no tool of
\* the request is passed over without invoking the executor, and a call whose
\* execution did not succeed is passed over too: both leave the conversation
\* and toolResults as they were and the for-of loop moves to the next call.
\* No other step of the loop changes them.
C17_OnlySuccessfulKnownCallsChangeState ==
    [][ mode = "sync" =>
          LET handling == /\ pc \in {"forEach", "awaitTool"}
                          /\ callIdx <= Len(CallsIn(toolCallsInResponse))
              known == FindTool(request,
                         CallsIn(toolCallsInResponse)[callIdx].function.name) # <<>>
              changed == \/ currentMessages' # currentMessages
                         \/ toolResults' # toolResults
              answered == Len(execOutcomes') > Len(execOutcomes)
              succeeded == answered /\ execOutcomes'[Len(execOutcomes')].success
          IN  /\ handling => (changed <=> (known /\ succeeded))
              /\ (handling /\ ~known) =>
                    /\ execLog' = execLog
                    /\ callIdx' = callIdx + 1
                    /\ pc' = "forEach"
              /\ (answered /\ ~succeeded) =>
                    /\ ~changed
                    /\ callIdx' = callIdx + 1
                    /\ pc' = "forEach"
              /\ (~handling /\ pc # "awaitFirst") => ~changed
      ]_vars

\* The batch of an unknown tool's call and a call of tool A has been handled:
\* the first was passed over, the second executed without success, and
\* nothing was recorded for either.
C17_Witness ==
    /\ mode = "sync"
    /\ pc = "forEach"
    /\ CallsIn(toolCallsInResponse) = <<callUnknown, callA2>>
    /\ callIdx = 3
    /\ lastBatchExecs = 1
    /\ ~execOutcomes[Len(execOutcomes)].success
    /\ toolResults = <<>>
    /\ currentMessages = allMessages

\* C18: the conversation sent with the first completion request is the
\* system prompt as a system message if the request has one, then the context
\* as a user message if the request has one, then every prior message of the
\* request at the position that keeps its order: nothing else is in it, and
\* no prior message is missing, repeated or moved.  (An empty string counts
\* as no system prompt and as no context.)
C18_FirstConversationInOrder ==
    pc = "awaitFirst" =>
      LET msgs == payload[1].messages
          sys == Truthy(request, "systemPrompt")
          ctx == Truthy(request, "context")
          prior == IF Has(request, "messages") THEN request.messages ELSE <<>>
          off == (IF sys THEN 1 ELSE 0) + (IF ctx THEN 1 ELSE 0)
      IN  /\ Len(msgs) = off + Len(prior)
          /\ sys => msgs[1] = [role |-> "system", content |-> request.systemPrompt]
          /\ ctx => msgs[off] = [role |-> "user", content |-> request.context]
          /\ \A i \in 1..Len(prior) : msgs[off + i] = prior[i]

\* The first request of a request with a system prompt, a context and two
\* different prior messages is in flight with four messages.
C18_Witness ==
    /\ pc = "awaitFirst"
    /\ Truthy(request, "systemPrompt")
    /\ Truthy(request, "context")
    /\ Has(request, "messages")
    /\ Len(request.messages) = 2
    /\ request.messages[1] # request.messages[2]
    /\ Len(payload[1].messages) = 4
    /\ payload[1].messages[2].role = "user"

\* C19: with the execution mode the source fixes at line 15, every request
\* invokes the completion capability at most once and the tool executor
\* never; the loop of lines 133-208 is never entered; the conversation stays
\* the one built from the request, which is the one sent; and a returned
\* Response has no toolResults.
C19_ShippedModeRunsNoTools ==
    mode = toolExecutionMode =>
        /\ nCompletions <= 1
        /\ execLog = <<>> /\ execOutcomes = <<>> /\ pending = <<>>
        /\ pc \in {"start", "awaitFirst", "returned", "thrown"}
        /\ iterationCount = 0
        /\ currentMessages = <<>>
        /\ toolResults = <<>>
        /\ payload # <<>> =>
              /\ allMessages = BuildMessages(request)
              /\ payload[1].messages = BuildMessages(request)
        /\ ReturnedResponse => ~Has(outcome.value, "toolResults")

\* In the shipped mode a Response reports one requested call of a tool of
\* the request, which was not executed, and the conversation is as built.
C19_Witness ==
    /\ mode = toolExecutionMode
    /\ ReturnedResponse
    /\ Has(outcome.value, "toolCalls")
    /\ Len(outcome.value.toolCalls) = 1
    /\ FindTool(request, outcome.value.toolCalls[1].name) # <<>>
    /\ execLog = <<>>
    /\ payload[1].messages = allMessages
    /\ Len(allMessages) = 2

\* C20: in sync mode a tool is executed only for a call of the latest
\* completion received, which is one of the first MAX_ITERATIONS completions,
\* and once a call of a completion was executed a further completion is
\* requested: the request then ends only with the Response that follows a
\* later completion or with the error of that further request.  So no call of
\* the last completion is ever executed.  After the exit at the cap the calls
\* of completion MAX_ITERATIONS + 1 were not executed, the conversation is
\* the one that was sent to obtain it, toolResults holds outputs of earlier
\* executions only and toolCalls is still that of the first completion.
C20_LastCompletionNotExecuted ==
    mode = "sync" =>
        /\ pc = "awaitTool" =>
              /\ BagCardinality(usageSeen) = nCompletions
              /\ nCompletions <= MAX_ITERATIONS
              /\ pending = <<LatestCalls[callIdx]>>
              /\ execLog[Len(execLog)].call = LatestCalls[callIdx]
        /\ (lastBatchExecs > 0 /\ Finished) =>
              /\ outcome = Thrown("backend error")
              /\ nCompletions = BagCardinality(usageSeen) + 1
        /\ ReturnedResponse => lastBatchExecs = 0
        /\ (ReturnedResponse /\ nCompletions = MAX_ITERATIONS + 1) =>
              /\ Len(execOutcomes) = Len(execLog)
              /\ currentMessages = payload[1].messages
              /\ toolResults = SuccessOutputs(execOutcomes)
              /\ toolCalls = MapToolCalls(ToolCallsOf(firstCompletion[1]))[1]
              /\ outcome.value = Response(request, content, tokens, toolCalls,
                                          toolResults)

\* The loop left at the cap: completion MAX_ITERATIONS + 1 requests a call of
\* a tool of the request with well-formed arguments, which was not executed.
C20_Witness ==
    /\ mode = "sync"
    /\ ReturnedResponse
    /\ nCompletions = MAX_ITERATIONS + 1
    /\ BagCardinality(usageSeen) = MAX_ITERATIONS + 1
    /\ \E i \in 1..Len(LatestCalls) :
          /\ FindTool(request, LatestCalls[i].function.name) # <<>>
          /\ JSONparse(LatestCalls[i].function.arguments).ok
    /\ lastBatchExecs = 0
    /\ Len(execLog) > 0

====
